---- MODULE Spec2Model ----
(***************************************************************************)
(* PaperlessLink: the directory watcher (generation-based debounce, one    *)
(* event loop, timer callbacks, bounded output queue), the sequential main *)
(* upload loop, and the upload / post-upload-action pipeline.              *)
(*                                                                         *)
(* Strings are sequences of one-character strings, so that filepath.Ext,   *)
(* filepath.Base, strings.ToLower and strings.TrimSuffix are computed.     *)
(***************************************************************************)
EXTENDS Integers, Sequences, FiniteSets, TLC

(* ------------------------------ bounds --------------------------------- *)

\* values (events, errors) the fsnotify watcher delivers in a run of SpecWatch
MaxEvents == 4
\* values (events, errors) the fsnotify watcher delivers in a run of Spec
MaxEventsQ == 3
\* values (events, errors) the fsnotify watcher delivers in a run of SpecQ and SpecLive
MaxEventsB == 2
\* values (events, errors) the fsnotify watcher delivers in a run of SpecLive that starts
\* with a full output queue
MaxEventsF == 1
\* timers that are armed, or fired with their message not yet handled, at once
MaxLive == 2
\* paths on the output queue at the start of a run of SpecUpload
MaxQueued == 2

(* -------------------------- program constants -------------------------- *)

\* out := make(chan string, 16)
OutCap == 16
\* timerCh := make(chan debounceMsg, 64)
TimerChCap == 64

(* ------------------------------ strings -------------------------------- *)

UpperCase == <<"A", "B", "C", "D", "E", "F", "G", "H", "I", "J", "K", "L", "M",
               "N", "O", "P", "Q", "R", "S", "T", "U", "V", "W", "X", "Y", "Z">>
LowerCase == <<"a", "b", "c", "d", "e", "f", "g", "h", "i", "j", "k", "l", "m",
               "n", "o", "p", "q", "r", "s", "t", "u", "v", "w", "x", "y", "z">>

\* unicode.ToLower on one character
ToLowerChar(c) ==
    IF \E i \in 1..Len(UpperCase) : UpperCase[i] = c
    THEN LowerCase[CHOOSE i \in 1..Len(UpperCase) : UpperCase[i] = c]
    ELSE c

\* strings.ToLower
ToLower(s) == [i \in 1..Len(s) |-> ToLowerChar(s[i])]

\* s[i:] in Go, with a 1-based i
From(s, i) == SubSeq(s, i, Len(s))

\* index of the last "/" of s, 0 when there is none
LastSlash(s) ==
    IF \E i \in 1..Len(s) : s[i] = "/"
    THEN CHOOSE i \in 1..Len(s) : s[i] = "/" /\ \A j \in (i+1)..Len(s) : s[j] # "/"
    ELSE 0

\* filepath.Base for the non-empty, slash-free-tailed paths of the model
Base(path) == From(path, LastSlash(path) + 1)

\* filepath.Ext: the suffix beginning at the final dot of the final element
Ext(path) ==
    LET b == LastSlash(path)
    IN  IF \E i \in (b+1)..Len(path) : path[i] = "."
        THEN From(path, CHOOSE i \in (b+1)..Len(path) :
                            path[i] = "." /\ \A j \in (i+1)..Len(path) : path[j] # ".")
        ELSE <<>>

\* strings.TrimPrefix
TrimPrefix(s, pre) ==
    IF Len(s) >= Len(pre) /\ SubSeq(s, 1, Len(pre)) = pre
    THEN From(s, Len(pre) + 1)
    ELSE s

\* strings.TrimSuffix
TrimSuffix(s, suf) ==
    IF Len(s) >= Len(suf) /\ From(s, Len(s) - Len(suf) + 1) = suf
    THEN SubSeq(s, 1, Len(s) - Len(suf))
    ELSE s

\* filepath.Join of a directory and a name
Join(dir, name) == dir \o <<"/">> \o name

\* filepath.Abs: an absolute name is kept, a relative one is joined to the cwd
Cwd == <<"/", "w">>
Abs(name) == IF Len(name) > 0 /\ name[1] = "/" THEN name ELSE Join(Cwd, name)

\* strings.Split(s, sep) for a one-character sep
RECURSIVE Split(_, _)
Split(s, sep) ==
    IF \E i \in 1..Len(s) : s[i] = sep
    THEN LET i == CHOOSE k \in 1..Len(s) : s[k] = sep /\ \A j \in 1..(k-1) : s[j] # sep
         IN  <<SubSeq(s, 1, i - 1)>> \o Split(From(s, i + 1), sep)
    ELSE <<s>>

\* strings.TrimSpace, for the space character
RECURSIVE TrimSpace(_)
TrimSpace(s) ==
    IF s # <<>> /\ s[1] = " " THEN TrimSpace(Tail(s))
    ELSE IF s # <<>> /\ s[Len(s)] = " " THEN TrimSpace(SubSeq(s, 1, Len(s) - 1))
    ELSE s

\* func ParseExtensions(raw): the set of the trimmed, lower-cased, dot-less,
\* non-empty entries of a comma-separated list
ParseExtensions(raw) ==
    IF raw = <<>>
    THEN {}
    ELSE LET parts == Split(raw, ",")
             norm(e) == TrimPrefix(ToLower(TrimSpace(e)), <<".">>)
         IN  {norm(parts[i]) : i \in 1..Len(parts)} \ {<<>>}

(* --------------------------- the environment --------------------------- *)

\* the watched directory and the names the native event source reports
WatchDir == <<"/", "w">>
NameA == <<"a", ".", "p", "d", "f">>
NameB == <<"b", ".", "P", "N", "G">>
PathA == Join(WatchDir, NameA)
PathB == Join(WatchDir, NameB)
Paths == {PathA, PathB}

\* os.TempDir() and the configured backup directory
TempDir == <<"/", "t">>
BackupDirName == <<"/", "k">>

\* what the scanner writes into a file: byte sequences, one per file
FileContent(path) == IF Base(path) = NameA THEN <<1, 2>> ELSE <<3>>

\* the proper prefixes of a content: what an interrupted io.Copy leaves behind
Prefixes(c) == {SubSeq(c, 1, n) : n \in 0..(Len(c) - 1)}

\* fsnotify.Op is a bit set; the operations the model's event source reports
Ops == {{"Create"}, {"Write"}, {"Chmod"}}

\* AllowedExts as ParseExtensions produces them: lower-cased, no leading dot
ExtSets == {{}, {<<"p", "d", "f">>}}

\* HTTP response statuses of the remote endpoint
Statuses == {199, 200, 299, 300, 500}

\* a map lookup with Go's zero value for a missing key
Get(m, k) == IF k \in DOMAIN m THEN m[k] ELSE 0

\* delete(m, k)
Delete(m, k) == [x \in DOMAIN m \ {k} |-> m[x]]

\* m[k] = v
Put(m, k, v) == [x \in DOMAIN m \cup {k} |-> IF x = k THEN v ELSE m[x]]

EmptyMap == [x \in {} |-> 0]


(* ------------------------------- state --------------------------------- *)

VARIABLES
    cfg,        \* the validated Config: RenameToUUID, AfterUpload, BackupDir, AllowedExts
    fs,         \* the file system: path -> content, for the files that exist
    stop,       \* TRUE once close(stop) has run
    wpc,        \* the event loop: "select", "send" (blocked on out <- path), "done"
    wsend,      \* the path the event loop is sending while wpc = "send"
    timers,     \* timers: path -> handle of the timer of the path's last event
    gens,       \* gens: path -> current generation
    timerCh,    \* the buffered channel of debounceMsg, oldest first
    out,        \* the buffered output channel, oldest first
    outClosed,  \* TRUE once close(out) has run
    armed,      \* timers scheduled, neither stopped nor fired
    firing,     \* fired timers whose callback has not yet left its select
    nev,        \* values received from the fsnotify watcher so far (events and errors)
    budget,     \* values the fsnotify watcher delivers in this run
    lastIn,     \* history: what the loop last received from the fsnotify watcher:
                \* the Op of an event, {"Error"} for an error, {} before the first
    lastTid,    \* history: path -> handle of the timer of its most recent event
    lastGen,    \* history: path -> generation captured by its most recent event
    burstEmits, \* history: path -> ready-signals of the path's current burst
    probe,      \* a call of allowed made on its own: its arguments and its result
    mpc,        \* the main loop: "recv", "upload", "stopped"
    upc,        \* the Upload call: "idle", "copy", "post", "dispose", "ret", "exit"
    ufile,      \* Upload's filePath
    upath,      \* Upload's uploadPath
    udefer,     \* TRUE once the deferred removal of uploadPath is registered
    uresp,      \* the response status of this call's POST, 0 none, -1 transport error
    udisp,      \* postUploadAction in this call: "none", "ok", "failed"
    uerr,       \* Upload's return value: "nil" or the wrapped error's prefix
    usnap,      \* history: fs when this Upload call was entered
    utmp,       \* history: the files this Upload call created in the temp directory
    ureq,       \* the HTTP requests this Upload call has sent, in order
    ncall,      \* Upload calls so far; uuid.New() is derived from it
    active      \* the Upload calls that have been entered and have not returned

wvars == <<stop, wpc, wsend, timers, gens, timerCh, out, outClosed, armed, firing,
           nev, budget, lastIn, lastTid, lastGen, burstEmits, probe>>
uvars == <<mpc, upc, ufile, upath, udefer, uresp, udisp, uerr, usnap, utmp, ureq, ncall, active>>
vars == <<cfg, fs, wvars, uvars>>

(* ------------------------------ watcher -------------------------------- *)

\* as allowed, with strings.ToLower forgotten
allowedNoLower(path, exts) ==
    IF Cardinality(exts) = 0
    THEN TRUE
    ELSE TrimPrefix(Ext(path), <<".">>) \in exts

\* as allowed, with the lookup's result ignored
allowedAny(path, exts) == TRUE

\* func allowed(path, exts)
allowed(path, exts) ==
    IF Cardinality(exts) = 0
    THEN TRUE
    ELSE TrimPrefix(ToLower(Ext(path)), <<".">>) \in exts

\* as waitForFile, with the probe's error ignored
waitForFileAlways(path) == TRUE

\* func waitForFile(path, timeout) returns nil: os.Stat succeeds on the path
waitForFile(path) == path \in DOMAIN fs

\* the number of timers that are armed, or fired with their message not yet handled
Live == Cardinality(armed) + Cardinality(firing) + Len(timerCh)

\* t.Stop(): an armed timer is cancelled, a fired or stopped one is left alone
StopTimer(set, tid) == {t \in set : t.tid # tid}

\* gens[path]++ ; gen := gens[path]
BumpGen(m, path) == Put(m, path, Get(m, path) + 1)

\* as ClearGens, with delete(gens, msg.path) forgotten
ClearGensKeep(m, path) == m

\* delete(gens, msg.path), when a matching timer message is handled
ClearGens(m, path) == Delete(m, path)

\* case event := <-fw.Events, for an event whose Op has Create or Write
OnRawEvent(name) ==
    LET path == Abs(name)
        tid  == nev + 1
        g    == Get(gens, path) + 1
        \* the event continues a burst when the timer of the previous event is still armed
        newBurst == ~\E t \in armed : t.tid = Get(lastTid, path)
    IN  /\ armed' = (IF path \in DOMAIN timers THEN StopTimer(armed, timers[path]) ELSE armed)
                        \cup {[tid |-> tid, path |-> path, gen |-> g]}
        /\ gens' = BumpGen(gens, path)
        /\ timers' = Put(timers, path, tid)
        /\ fs' = Put(fs, path, FileContent(path))
        /\ lastTid' = Put(lastTid, path, tid)
        /\ lastGen' = Put(lastGen, path, g)
        /\ burstEmits' = IF newBurst THEN Put(burstEmits, path, 0) ELSE burstEmits

\* as IsCreateOrWrite, with Chmod added to the mask
IsCreateOrWriteOrChmod(op) == op \cap {"Create", "Write", "Chmod"} # {}

\* event.Op&(fsnotify.Create|fsnotify.Write) != 0
IsCreateOrWrite(op) == op \cap {"Create", "Write"} # {}

\* case event := <-fw.Events
RawEvent(name, op) ==
    /\ wpc = "select"
    /\ nev < budget
    /\ Live < MaxLive
    /\ nev' = nev + 1
    /\ lastIn' = op
    /\ IF ~IsCreateOrWrite(op)
       THEN UNCHANGED <<armed, gens, timers, fs, lastTid, lastGen, burstEmits>>
       ELSE OnRawEvent(name)
    /\ UNCHANGED <<cfg, stop, wpc, wsend, timerCh, out, outClosed, firing, budget, probe, uvars>>

\* case watchErr, ok := <-fw.Errors: the error is logged and the loop goes on
WatchError ==
    /\ wpc = "select"
    /\ nev < budget
    /\ nev' = nev + 1
    /\ lastIn' = {"Error"}
    /\ UNCHANGED <<cfg, fs, stop, wpc, wsend, timers, gens, timerCh, out, outClosed, armed,
                   firing, budget, lastTid, lastGen, burstEmits, probe, uvars>>

\* the scanner, or its user, removes a file of the watched directory; the Remove
\* event this raises is one the event loop ignores
FileRemoved(path) ==
    /\ path \in DOMAIN fs
    /\ fs' = Delete(fs, path)
    /\ UNCHANGED <<cfg, wvars, uvars>>

\* the runtime fires an armed timer: its callback starts in its own goroutine
TimerFire(t) ==
    /\ t \in armed
    /\ armed' = armed \ {t}
    /\ firing' = firing \cup {t}
    /\ UNCHANGED <<cfg, fs, stop, wpc, wsend, timers, gens, timerCh, out, outClosed,
                   nev, budget, lastIn, lastTid, lastGen, burstEmits, probe, uvars>>

\* the callback's select takes case timerCh <- debounceMsg{path: p, gen: gen}
TimerSend(t) ==
    /\ t \in firing
    /\ Len(timerCh) < TimerChCap
    /\ timerCh' = Append(timerCh, t)
    /\ firing' = firing \ {t}
    /\ UNCHANGED <<cfg, fs, stop, wpc, wsend, timers, gens, out, outClosed, armed,
                   nev, budget, lastIn, lastTid, lastGen, burstEmits, probe, uvars>>

\* the callback's select takes case <-stop
TimerDrop(t) ==
    /\ t \in firing
    /\ stop
    /\ firing' = firing \ {t}
    /\ UNCHANGED <<cfg, fs, stop, wpc, wsend, timers, gens, timerCh, out, outClosed, armed,
                   nev, budget, lastIn, lastTid, lastGen, burstEmits, probe, uvars>>

\* case msg := <-timerCh
OnTimerMsg ==
    /\ wpc = "select"
    /\ timerCh # <<>>
    /\ LET msg == Head(timerCh)
       IN  /\ timerCh' = Tail(timerCh)
           /\ IF Get(gens, msg.path) # msg.gen
              THEN UNCHANGED <<timers, gens, burstEmits, wpc, wsend>>
              ELSE /\ timers' = Delete(timers, msg.path)
                   /\ gens' = ClearGens(gens, msg.path)
                   /\ burstEmits' = Put(burstEmits, msg.path, Get(burstEmits, msg.path) + 1)
                   /\ IF allowed(msg.path, cfg.AllowedExts) /\ waitForFile(msg.path)
                      THEN wpc' = "send" /\ wsend' = msg.path
                      ELSE UNCHANGED <<wpc, wsend>>
    /\ UNCHANGED <<cfg, fs, stop, out, outClosed, armed, firing, nev, budget, lastIn,
                   lastTid, lastGen, probe, uvars>>

\* as CanSend, with a channel made one slot too large
CanSendOffByOne(q) == Len(q) <= OutCap

\* a send on the buffered output channel is possible
CanSend(q) == Len(q) < OutCap

\* select { case out <- msg.path: ... }
OutSend ==
    /\ wpc = "send"
    /\ CanSend(out)
    /\ out' = Append(out, wsend)
    /\ wpc' = "select"
    /\ wsend' = <<>>
    /\ UNCHANGED <<cfg, fs, stop, timers, gens, timerCh, outClosed, armed, firing,
                   nev, budget, lastIn, lastTid, lastGen, burstEmits, probe, uvars>>

\* as LoopStop, with the send written as a plain out <- msg.path
LoopStopSelectOnly ==
    /\ wpc = "select"
    /\ stop
    /\ wpc' = "done"
    /\ wsend' = <<>>
    /\ outClosed' = TRUE
    /\ UNCHANGED <<cfg, fs, stop, timers, gens, timerCh, out, armed, firing,
                   nev, budget, lastIn, lastTid, lastGen, burstEmits, probe, uvars>>

\* case <-stop: return, in the loop's select or in the select around the send;
\* the deferred close(out) runs
LoopStop ==
    /\ wpc \in {"select", "send"}
    /\ stop
    /\ wpc' = "done"
    /\ wsend' = <<>>
    /\ outClosed' = TRUE
    /\ UNCHANGED <<cfg, fs, stop, timers, gens, timerCh, out, armed, firing,
                   nev, budget, lastIn, lastTid, lastGen, burstEmits, probe, uvars>>

\* the signal goroutine of main: close(stop)
Signal ==
    /\ ~stop
    /\ stop' = TRUE
    /\ UNCHANGED <<cfg, fs, wpc, wsend, timers, gens, timerCh, out, outClosed, armed, firing,
                   nev, budget, lastIn, lastTid, lastGen, burstEmits, probe, uvars>>

(* --------------------------- upload pipeline --------------------------- *)

Digits == <<"0", "1", "2", "3", "4", "5", "6", "7", "8", "9">>

\* uuid.New().String(): a name no earlier call was given
Uuid(n) == <<"u", Digits[((n \div 10) % 10) + 1], Digits[(n % 10) + 1]>>

\* what one file-system call can do: the error flag and the file system after it
Outcome(e, f) == [err |-> e, fs |-> f]

\* as copyFile, with the error of io.Copy dropped
copyFileUnchecked(f, src, dst) ==
    {Outcome(TRUE, f)}
    \cup (IF src \in DOMAIN f
          THEN {Outcome(FALSE, Put(f, dst, pre)) : pre \in Prefixes(f[src])}
               \cup {Outcome(TRUE, Put(f, dst, f[src]))}
               \cup {Outcome(FALSE, Put(f, dst, f[src]))}
          ELSE {})

\* func copyFile(src, dst): os.Open, os.Create, io.Copy, out.Sync
copyFile(f, src, dst) ==
    \* os.Open or os.Create fails: nothing is written
    {Outcome(TRUE, f)}
    \cup (IF src \in DOMAIN f
          THEN \* io.Copy fails part-way: dst holds a proper prefix
               {Outcome(TRUE, Put(f, dst, pre)) : pre \in Prefixes(f[src])}
               \* out.Sync fails: dst holds everything, the error is returned
               \cup {Outcome(TRUE, Put(f, dst, f[src]))}
               \* success
               \cup {Outcome(FALSE, Put(f, dst, f[src]))}
          ELSE {})

\* os.Remove(path)
osRemove(f, path) ==
    {Outcome(TRUE, f)}
    \cup (IF path \in DOMAIN f THEN {Outcome(FALSE, Delete(f, path))} ELSE {})

\* os.Rename(src, dst)
osRename(f, src, dst) ==
    {Outcome(TRUE, f)}
    \cup (IF src \in DOMAIN f
          THEN {Outcome(FALSE, Put(Delete(f, src), dst, f[src]))}
          ELSE {})

\* func moveFile(src, dst): rename, else copy and then remove the source
moveFile(f, src, dst) ==
    {o \in osRename(f, src, dst) : ~o.err}
    \cup {c \in copyFile(f, src, dst) : c.err}
    \cup UNION {osRemove(c.fs, src) : c \in {x \in copyFile(f, src, dst) : ~x.err}}

\* func postUploadAction(cfg, filePath)
postUploadAction(c, f, filePath) ==
    IF c.AfterUpload = "delete"
    THEN osRemove(f, filePath)
    ELSE IF c.AfterUpload = "backup"
    THEN moveFile(f, filePath, Join(c.BackupDir, Base(filePath)))
    ELSE {Outcome(FALSE, f)}

\* as StatusRejected, with > written for >=
StatusRejectedOffByOne(s) == s < 200 \/ s > 300

\* as StatusRejected, with only server errors taken as failures
StatusRejectedServerOnly(s) == s >= 500

\* the status check of postDocument: resp.StatusCode < 200 || resp.StatusCode >= 300
StatusRejected(s) == s < 200 \/ s >= 300

\* as Stem, with strings.TrimSuffix forgotten
StemKeepExt(filePath) == Base(filePath)

\* the title Upload passes to postDocument: the stem of the original name
Stem(filePath) == TrimSuffix(Base(filePath), Ext(Base(filePath)))

\* the multipart request postDocument sends for the file at path
Request(f, path, title) ==
    [filename |-> Base(path), title |-> title, body |-> f[path]]

\* as MainAtRange, with the loop body started as go uploader.Upload(cfg, filePath)
MainAtRangeAlways == TRUE

\* for filePath := range files: a value is received when the main loop is at the range
MainAtRange == mpc = "recv"

\* for filePath := range files { uploader.Upload(cfg, filePath) }: Upload is entered
MainRecv ==
    /\ MainAtRange
    /\ out # <<>>
    /\ out' = Tail(out)
    /\ mpc' = "upload"
    /\ ufile' = Head(out)
    /\ upath' = Head(out)
    /\ udefer' = FALSE
    /\ uresp' = 0
    /\ udisp' = "none"
    /\ uerr' = "nil"
    /\ usnap' = fs
    /\ utmp' = {}
    /\ ureq' = <<>>
    /\ ncall' = ncall + 1
    /\ active' = active \cup {ncall + 1}
    /\ upc' = IF cfg.RenameToUUID THEN "copy" ELSE "post"
    /\ UNCHANGED <<cfg, fs, stop, wpc, wsend, timers, gens, timerCh, outClosed, armed, firing,
                   nev, budget, lastIn, lastTid, lastGen, burstEmits, probe>>

\* Upload, if cfg.RenameToUUID: the temporary copy is made and its removal deferred
UploadCopy ==
    /\ upc = "copy"
    /\ LET uploadPath == Join(TempDir, Uuid(ncall) \o Ext(ufile))
       IN  \E o \in copyFile(fs, ufile, uploadPath) :
               /\ fs' = o.fs
               /\ upath' = uploadPath
               /\ utmp' = {uploadPath} \cap DOMAIN o.fs
               /\ IF o.err
                  THEN uerr' = "uuid copy" /\ upc' = "ret" /\ UNCHANGED udefer
                  ELSE udefer' = TRUE /\ upc' = "post" /\ UNCHANGED uerr
    /\ UNCHANGED <<cfg, wvars, mpc, ufile, uresp, udisp, usnap, ureq, ncall, active>>

\* postDocument fails before client.Do: os.Open, the multipart writer, NewRequest
PostLocalError ==
    /\ upc = "post"
    /\ uerr' = "upload failed"
    /\ upc' = "ret"
    /\ UNCHANGED <<cfg, fs, wvars, mpc, ufile, upath, udefer, uresp, udisp, usnap, utmp,
                   ureq, ncall, active>>

\* postDocument sends the request; client.Do returns an error
PostTransportError ==
    /\ upc = "post"
    /\ upath \in DOMAIN fs
    /\ ureq' = Append(ureq, Request(fs, upath, Stem(ufile)))
    /\ uresp' = -1
    /\ uerr' = "upload failed"
    /\ upc' = "ret"
    /\ UNCHANGED <<cfg, fs, wvars, mpc, ufile, upath, udefer, udisp, usnap, utmp, ncall, active>>

\* postDocument sends the request and reads a response with status s
PostResponse(s) ==
    /\ upc = "post"
    /\ upath \in DOMAIN fs
    /\ ureq' = Append(ureq, Request(fs, upath, Stem(ufile)))
    /\ uresp' = s
    /\ IF StatusRejected(s)
       THEN uerr' = "upload failed" /\ upc' = "ret"
       ELSE upc' = "dispose" /\ UNCHANGED uerr
    /\ UNCHANGED <<cfg, fs, wvars, mpc, ufile, upath, udefer, udisp, usnap, utmp, ncall, active>>

\* as UploadDispose, with postUploadAction's error dropped and nil returned
UploadDisposeIgnoreErr ==
    /\ upc = "dispose"
    /\ \E o \in postUploadAction(cfg, fs, ufile) :
           /\ fs' = o.fs
           /\ udisp' = IF o.err THEN "failed" ELSE "ok"
           /\ uerr' = "nil"
    /\ upc' = "ret"
    /\ UNCHANGED <<cfg, wvars, mpc, ufile, upath, udefer, uresp, usnap, utmp, ureq, ncall, active>>

\* return postUploadAction(cfg, filePath)
UploadDispose ==
    /\ upc = "dispose"
    /\ \E o \in postUploadAction(cfg, fs, ufile) :
           /\ fs' = o.fs
           /\ udisp' = IF o.err THEN "failed" ELSE "ok"
           /\ uerr' = IF ~o.err THEN "nil"
                      ELSE IF cfg.AfterUpload = "delete" THEN "delete after upload"
                      ELSE "backup after upload"
    /\ upc' = "ret"
    /\ UNCHANGED <<cfg, wvars, mpc, ufile, upath, udefer, uresp, usnap, utmp, ureq, ncall, active>>

\* the deferred os.Remove(uploadPath) of Upload, when it was registered
deferredRemove(f, registered, path) ==
    IF registered THEN {o.fs : o \in osRemove(f, path)} ELSE {f}

\* Upload reaches a return statement: its deferred call runs
UploadDefer ==
    /\ upc = "ret"
    /\ fs' \in deferredRemove(fs, udefer, upath)
    /\ upc' = "exit"
    /\ UNCHANGED <<cfg, wvars, mpc, ufile, upath, udefer, uresp, udisp, uerr, usnap, utmp,
                   ureq, ncall, active>>

\* as MainAfterUpload, with the loop left on the first failed upload
MainAfterUploadBreak(err) == IF err = "nil" THEN "recv" ELSE "stopped"

\* if err := uploader.Upload(...); err != nil { slog.Error(...) }: whatever Upload
\* returned, the main loop goes back to its range statement
MainAfterUpload(err) == "recv"

\* Upload has returned: the main loop logs an error, if any, and goes on to the range
UploadReturn ==
    /\ upc = "exit"
    /\ upc' = "idle"
    /\ mpc' = MainAfterUpload(uerr)
    /\ active' = active \ {ncall}
    /\ ufile' = <<>> /\ upath' = <<>> /\ udefer' = FALSE /\ uresp' = 0
    /\ udisp' = "none" /\ uerr' = "nil" /\ usnap' = EmptyMap /\ utmp' = {} /\ ureq' = <<>>
    /\ UNCHANGED <<cfg, fs, wvars, ncall>>

\* as MainExit, with the loop left as soon as the channel is closed
MainExitOnClose ==
    /\ mpc = "recv"
    /\ outClosed
    /\ mpc' = "stopped"
    /\ UNCHANGED <<cfg, fs, wvars, upc, ufile, upath, udefer, uresp, udisp, uerr, usnap, utmp,
                   ureq, ncall, active>>

\* range files ends: the channel is closed and drained
MainExit ==
    /\ mpc = "recv"
    /\ out = <<>>
    /\ outClosed
    /\ mpc' = "stopped"
    /\ UNCHANGED <<cfg, fs, wvars, upc, ufile, upath, udefer, uresp, udisp, uerr, usnap, utmp,
                   ureq, ncall, active>>

(* --------------------------- specifications ---------------------------- *)

Cfgs == [RenameToUUID : BOOLEAN, AfterUpload : {"delete", "backup"},
         BackupDir : {BackupDirName}, AllowedExts : ExtSets]

\* no call of allowed on its own has been made
NoProbe == [kind |-> "none", path |-> <<>>, ext |-> <<>>, entries |-> <<>>, exts |-> {}, ok |-> FALSE]

\* the state after Watch has started its goroutine and main has reached its loop
Start(b, q) ==
    /\ stop = FALSE /\ wpc = "select" /\ wsend = <<>>
    /\ timers = EmptyMap /\ gens = EmptyMap
    /\ timerCh = <<>> /\ out = q /\ outClosed = FALSE
    /\ armed = {} /\ firing = {}
    /\ nev = 0 /\ budget = b /\ lastIn = {}
    /\ lastTid = EmptyMap /\ lastGen = EmptyMap
    /\ burstEmits = EmptyMap
    /\ probe = NoProbe
    /\ mpc = "recv" /\ upc = "idle" /\ ufile = <<>> /\ upath = <<>>
    /\ udefer = FALSE /\ uresp = 0 /\ udisp = "none" /\ uerr = "nil"
    /\ usnap = EmptyMap /\ utmp = {} /\ ureq = <<>> /\ ncall = 0 /\ active = {}

\* the whole program, one watched file
Init ==
    /\ cfg \in {c \in Cfgs : c.AllowedExts # {}}
    /\ fs = EmptyMap
    /\ Start(MaxEventsQ, <<>>)

Watcher(names) ==
    \/ \E name \in names, op \in Ops : RawEvent(name, op)
    \/ WatchError
    \/ \E t \in armed : TimerFire(t)
    \/ \E t \in firing : TimerSend(t)
    \/ \E t \in firing : TimerDrop(t)
    \/ OnTimerMsg
    \/ OutSend
    \/ LoopStop
    \/ Signal

Main ==
    \/ MainRecv
    \/ UploadCopy
    \/ PostLocalError
    \/ PostTransportError
    \/ \E s \in Statuses : PostResponse(s)
    \/ UploadDispose
    \/ UploadDefer
    \/ UploadReturn
    \/ MainExit

Next == Watcher({NameA}) \/ Main

Spec == Init /\ [][Next]_vars

\* the watcher alone: Watch and its goroutine, two watched files, nothing received
\* from the output channel yet
InitWatch ==
    /\ cfg \in {c \in Cfgs : c.RenameToUUID /\ c.AfterUpload = "delete"}
    /\ fs = EmptyMap
    /\ Start(MaxEvents, <<>>)

NextWatch == Watcher({NameA, PathB})

SpecWatch == InitWatch /\ [][NextWatch]_vars

\* the upload pipeline alone: the main loop and Upload on a queue of ready paths,
\* each file present (as the scanner wrote it) or gone, the backup directory
\* holding an older file of the same name or not
OldContent == <<9>>
BackupPath(path) == Join(BackupDirName, Base(path))
FileSystems ==
    {f \in UNION {[S -> {FileContent(PathA), FileContent(PathB), OldContent}] :
                     S \in SUBSET (Paths \cup {BackupPath(p) : p \in Paths})} :
        /\ \A p \in DOMAIN f \cap Paths : f[p] = FileContent(p)
        /\ \A p \in DOMAIN f \ Paths : f[p] = OldContent}

InitUpload ==
    /\ cfg \in {c \in Cfgs : c.AllowedExts = {}}
    /\ fs \in FileSystems
    /\ \E n \in 1..MaxQueued : \E q \in [1..n -> Paths] : Start(0, q)

NextUpload == Main \/ Signal \/ LoopStop

SpecUpload == InitUpload /\ [][NextUpload]_vars

\* the whole program run without -rename-uuid, started with a backlog: ready paths
\* queued while the main loop has not yet come to receive
Backlog(n) == [i \in 1..n |-> PathA]

InitQ ==
    /\ cfg \in {c \in Cfgs : ~c.RenameToUUID /\ c.AfterUpload = "delete" /\ c.AllowedExts # {}}
    /\ fs = Put(EmptyMap, PathA, FileContent(PathA))
    /\ Start(MaxEventsB, Backlog(OutCap - 1))

UploadStep ==
    \/ PostLocalError
    \/ PostTransportError
    \/ \E s \in Statuses : PostResponse(s)
    \/ UploadDispose
    \/ UploadDefer
    \/ UploadReturn

NextQ == Watcher({NameA}) \/ MainRecv \/ UploadStep \/ MainExit

SpecQ == InitQ /\ [][NextQ]_vars

\* the same program with two watched files and no stop signal, started idle or
\* with a full output queue, under the fairness of the Go scheduler: an armed
\* timer fires, a callback that can send does, the event loop takes a ready case
\* of its select, the main loop and Upload go on (the HTTP client has a timeout)
TimerStep ==
    \/ \E t \in armed : TimerFire(t)
    \/ \E t \in firing : TimerSend(t)

NextLive ==
    \/ \E name \in {NameA, PathB}, op \in Ops : RawEvent(name, op)
    \/ WatchError
    \/ TimerStep
    \/ OnTimerMsg
    \/ OutSend
    \/ MainRecv
    \/ UploadStep

InitLive ==
    /\ cfg \in {c \in Cfgs : ~c.RenameToUUID /\ c.AfterUpload = "delete" /\ c.AllowedExts # {}}
    /\ fs = Put(EmptyMap, PathA, FileContent(PathA))
    /\ \/ Start(MaxEventsB, <<>>)
       \/ Start(MaxEventsF, Backlog(OutCap))

\* every behaviour of the bounded program is finite, so weak fairness of the
\* next-state relation (which the fairness of each goroutine implies) is what
\* the liveness claims need
SpecLive ==
    /\ InitLive
    /\ [][NextLive]_vars
    /\ WF_vars(NextLive)

\* the whole program run with -rename-uuid and -after-upload=backup, two watched
\* files of which one is filtered, files that may be removed again, and the stop
\* signal, under the fairness of the Go scheduler for the main goroutine (Upload
\* always returns: the HTTP client has a timeout) and for the event loop's stop case
InitFair ==
    /\ cfg \in {c \in Cfgs : c.RenameToUUID /\ c.AfterUpload = "backup" /\ c.AllowedExts # {}}
    /\ fs = EmptyMap
    /\ Start(MaxEventsB, <<>>)

NextFair ==
    \/ Watcher({NameA, PathB})
    \/ Main
    \/ \E p \in Paths : FileRemoved(p)

SpecFair ==
    /\ InitFair
    /\ [][NextFair]_vars
    /\ WF_vars(Main)
    /\ WF_vars(LoopStop)

\* the program of SpecLive with the stop signal: the event loop and the timer
\* callbacks take their stop case, the main loop ends on the closed channel
MainNoCopy == MainRecv \/ UploadStep \/ MainExit

NextStop == Watcher({NameA, PathB}) \/ MainNoCopy

SpecStop ==
    /\ InitLive
    /\ [][NextStop]_vars
    /\ WF_vars(MainNoCopy)
    /\ WF_vars(LoopStop)

\* allowed called on its own, as a test would: on paths built from a directory, a
\* stem and an extension, with a set given directly or parsed from a -ext value
ProbeDirs == {<<"/", "w">>, <<"/", "w", ".", "d">>}
ProbeStems == {<<"a">>, <<>>, <<"a", ".", "b">>}
ProbeExts == {<<"p", "d", "f">>, <<"P", "D", "F">>, <<"P", "d", "f">>, <<"P", "N", "G">>}
ProbeNames ==
    {[name |-> st \o <<".">> \o e, ext |-> e] : st \in ProbeStems, e \in ProbeExts}
    \cup {[name |-> <<"a">>, ext |-> <<>>]}
ProbeSets == SUBSET {<<"p", "d", "f">>, <<"P", "D", "F">>, <<"p", "n", "g">>}
ProbeEntries == {<<"p", "d", "f">>, <<"P", "D", "F">>, <<".", "P", "d", "f">>,
                 <<" ", "p", "n", "g", " ">>, <<>>}
ProbeLists == {<<>>} \cup {<<e>> : e \in ProbeEntries}
                    \cup {<<e, f>> : e \in ProbeEntries, f \in ProbeEntries}

\* the -ext value that lists the entries
RECURSIVE JoinComma(_)
JoinComma(l) ==
    IF l = <<>> THEN <<>>
    ELSE IF Len(l) = 1 THEN l[1]
    ELSE l[1] \o <<",">> \o JoinComma(Tail(l))

\* allowed(path, exts) with the set given directly
AllowedDirect(d, n, exts) ==
    /\ probe.kind = "none"
    /\ probe' = [kind |-> "direct", path |-> Join(d, n.name), ext |-> n.ext, entries |-> <<>>,
                 exts |-> exts, ok |-> allowed(Join(d, n.name), exts)]
    /\ UNCHANGED <<cfg, fs, stop, wpc, wsend, timers, gens, timerCh, out, outClosed, armed,
                   firing, nev, budget, lastIn, lastTid, lastGen, burstEmits, uvars>>

\* allowed(path, config.ParseExtensions(raw)), as Watch is given its set by main
AllowedParsed(d, n, l) ==
    /\ probe.kind = "none"
    /\ probe' = [kind |-> "parsed", path |-> Join(d, n.name), ext |-> n.ext, entries |-> l,
                 exts |-> ParseExtensions(JoinComma(l)),
                 ok |-> allowed(Join(d, n.name), ParseExtensions(JoinComma(l)))]
    /\ UNCHANGED <<cfg, fs, stop, wpc, wsend, timers, gens, timerCh, out, outClosed, armed,
                   firing, nev, budget, lastIn, lastTid, lastGen, burstEmits, uvars>>

InitAllowed ==
    /\ cfg \in {c \in Cfgs : ~c.RenameToUUID /\ c.AfterUpload = "delete" /\ c.AllowedExts = {}}
    /\ fs = EmptyMap
    /\ Start(0, <<>>)

NextAllowed ==
    \/ \E d \in ProbeDirs, n \in ProbeNames, exts \in ProbeSets : AllowedDirect(d, n, exts)
    \/ \E d \in ProbeDirs, n \in ProbeNames, l \in ProbeLists : AllowedParsed(d, n, l)

SpecAllowed == InitAllowed /\ [][NextAllowed]_vars

(* ------------------------------- claims -------------------------------- *)

\* the file at a path, as a sequence of at most one content
FileAt(f, path) == IF path \in DOMAIN f THEN <<f[path]>> ELSE <<>>

\* the response of this call's POST has a status in [200,300)
Accepted == uresp >= 200 /\ uresp < 300

\* C1: for every path, a burst of Create/Write events (each event arriving before
\* the timer of the previous one has fired) is forwarded by the event
\* loop at most once.
C1_AtMostOncePerBurst ==
    \A p \in DOMAIN burstEmits : burstEmits[p] <= 1

\* C2: whenever the event loop emits a ready-signal for a path (it handles a timer
\* message whose generation matches and clears the path's state), that message
\* comes from the timer scheduled by the most recent Create/Write event of the path.
C2_ReadyFromLatestTimer ==
    [][\A p \in DOMAIN gens :
          p \notin DOMAIN gens' => Head(timerCh).tid = Get(lastTid, p)]_vars

\* C3: for each path, every Create/Write event captures a generation strictly
\* greater than the one the path's previous Create/Write event captured.
C3_GenStrictlyIncreasing ==
    [][\A p \in DOMAIN lastGen' :
          Get(lastTid', p) # Get(lastTid, p) => lastGen'[p] > Get(lastGen, p)]_vars

\* C4: in every state, each path has at most one timer that has been scheduled and
\* has neither been cancelled nor fired.
C4_AtMostOnePendingTimer ==
    \A p \in Paths : Cardinality({t \in armed : t.path = p}) <= 1

\* C5: the disposition of the source file is executed if and only if this call's
\* POST was answered with a status in [200,300), only after that answer, and the
\* source file is never removed or moved before or without such an answer.
C5_DispositionIffAccepted ==
    /\ (upc = "dispose" \/ udisp # "none") => (Accepted /\ Len(ureq) = 1)
    /\ (upc \in {"ret", "exit"} /\ Accepted) => udisp # "none"
    /\ (upc # "idle" /\ FileAt(fs, ufile) # FileAt(usnap, ufile)) => (Accepted /\ udisp = "ok")

C5_Witness ==
    /\ upc = "exit" /\ uresp = 299 /\ udisp = "ok"
    /\ ufile \in DOMAIN usnap /\ ufile \notin DOMAIN fs

\* C6: when Upload returns without an accepted upload, it returns an error, no
\* disposition ran, the source file is as it was when Upload was entered, the
\* backup directory is as it was, and a failed temporary copy means no request.
C6_FailureLeavesSource ==
    (upc = "exit" /\ ~Accepted) =>
        /\ uerr # "nil"
        /\ udisp = "none"
        /\ FileAt(fs, ufile) = FileAt(usnap, ufile)
        /\ \A p \in Paths : FileAt(fs, BackupPath(p)) = FileAt(usnap, BackupPath(p))
        /\ uerr = "uuid copy" => ureq = <<>>

C6_Witness ==
    /\ upc = "exit" /\ uresp = 500 /\ uerr = "upload failed"
    /\ cfg.AfterUpload = "backup" /\ ufile \in DOMAIN fs

\* C7: with rename-to-UUID enabled, when Upload returns, no temporary file that
\* this call created is left in the temporary directory.
C7_NoTempFileLeft ==
    (upc = "exit" /\ cfg.RenameToUUID) => utmp \cap DOMAIN fs = {}

\* C8: the output queue never holds more than 16 paths, and while the event loop
\* is sending a ready path it either stays blocked, or appends exactly that path to
\* the queue and returns to its select, or returns because stop was given: the
\* path is never discarded for a full queue.
C8_QueueBoundedNoDrop ==
    /\ [](Len(out) <= OutCap)
    /\ [][wpc = "send" =>
             \/ wpc' = "send" /\ wsend' = wsend /\ Len(out') <= Len(out)
             \/ wpc' = "select" /\ out' = Append(out, wsend)
             \/ wpc' = "done" /\ stop]_vars

C8_Witness ==
    /\ wpc = "send" /\ wsend = PathA /\ Len(out) = OutCap /\ ~stop

\* C9: absent shutdown, no path's debounce state remains forever: eventually gens
\* and timers are empty for good and the loop is back at its select; an entry
\* leaves gens only when a timer message with the matching generation is handled,
\* which clears the timers entry too and, for an allowed, accessible path, makes
\* the loop send that path; and a send ends only by placing the path on the queue.
C9_SessionCompletes ==
    /\ <>[](gens = EmptyMap /\ timers = EmptyMap /\ wpc = "select")
    /\ [][\A p \in DOMAIN gens :
            p \notin DOMAIN gens' =>
                /\ p \notin DOMAIN timers'
                /\ Head(timerCh).path = p /\ Head(timerCh).gen = gens[p]
                /\ (allowed(p, cfg.AllowedExts) /\ p \in DOMAIN fs)
                      => (wpc' = "send" /\ wsend' = p)]_vars
    /\ [][(wpc = "send" /\ wpc' # "send") =>
             (wpc' = "select" /\ out' = Append(out, wsend))]_vars

C9_Witness ==
    /\ nev = budget /\ lastTid # EmptyMap /\ gens = EmptyMap /\ timers = EmptyMap
    /\ armed = {} /\ firing = {} /\ timerCh = <<>>
    /\ wpc = "select" /\ ncall > OutCap

\* C10: at most one Upload call is in progress at any time.
C10_OneUploadInProgress ==
    Cardinality(active) <= 1

C10_Witness ==
    /\ ncall = 2 /\ active = {2} /\ upc = "post" /\ ufile = PathA

\* C11: a failed Upload never stops the main loop: every path placed on the
\* output queue is eventually taken off it, and a path leaves the queue only by
\* being passed to Upload; whatever Upload returned, the main loop goes back to
\* its range statement, it ends only on the closed and drained queue; and the
\* event loop is still at its select after a watcher error, a filtered path and
\* a readiness timeout.
C11_FailureNeverStopsLoop ==
    /\ <>[](out = <<>>)
    /\ [][out' # out =>
             \/ wpc = "send" /\ out' = Append(out, wsend)
             \/ /\ out # <<>> /\ out' = Tail(out)
                /\ ufile' = Head(out) /\ ncall' = ncall + 1 /\ upc' \in {"copy", "post"}]_vars
    /\ [][(upc = "exit" /\ upc' # "exit") => mpc' = "recv"]_vars
    /\ [](mpc = "stopped" => (outClosed /\ out = <<>>))
    /\ [][(nev' # nev /\ lastIn' = {"Error"}) => (wpc' = "select" /\ ~outClosed')]_vars
    /\ [][\A p \in DOMAIN gens :
            (p \notin DOMAIN gens' /\ ~(allowed(p, cfg.AllowedExts) /\ p \in DOMAIN fs))
                => (wpc' = "select" /\ ~outClosed')]_vars

C11_Witness ==
    /\ ncall = 2 /\ upc = "post" /\ ufile = PathA
    /\ BackupPath(PathA) \notin DOMAIN fs

\* C12: once the stop signal is given the event loop eventually terminates, and
\* while it is blocked sending with stop given its stop case can be taken; the
\* output queue is closed exactly when the loop terminates, once, and stays
\* closed; the main loop then ends, and only on the drained queue.
C12_StopTerminates ==
    /\ stop ~> (wpc = "done" /\ outClosed)
    /\ [](((stop /\ wpc = "send") => ENABLED LoopStop))
    /\ [](outClosed <=> wpc = "done")
    /\ [][wpc = "done" => (wpc' = "done" /\ outClosed')]_vars
    /\ stop ~> (mpc = "stopped")
    /\ [](mpc = "stopped" => (wpc = "done" /\ out = <<>>))

C12_Witness ==
    /\ wpc = "done" /\ outClosed /\ stop
    /\ Len(out) = OutCap /\ ncall = 0
    /\ PathA \in DOMAIN lastTid /\ PathA \notin DOMAIN gens

\* the lower-cased extension of a path, without its dot
LowerExt(p) == ToLower(From(Ext(p), 2))

\* the paths the configured extension set excludes
Filtered == {p \in Paths : cfg.AllowedExts # {} /\ LowerExt(p) \notin cfg.AllowedExts}

\* C13: with a non-empty extension set, a path whose lower-cased extension is not
\* in the set is never on the output queue, never the path the loop is sending and
\* never Upload's filePath; and when a timer message of such a path is handled with
\* the matching generation, the path's entries leave gens and timers.
C13_FilteredNeverQueued ==
    /\ [](\A p \in Filtered :
            /\ \A i \in 1..Len(out) : out[i] # p
            /\ wsend # p
            /\ ufile # p)
    /\ [][(/\ timerCh # <<>>
           /\ timerCh' = Tail(timerCh)
           /\ Head(timerCh).path \in Filtered
           /\ Get(gens, Head(timerCh).path) = Head(timerCh).gen)
             => /\ Head(timerCh).path \notin DOMAIN gens'
                /\ Head(timerCh).path \notin DOMAIN timers'
                /\ wpc' = "select" /\ out' = out]_vars

C13_Witness ==
    /\ PathB \in Filtered /\ PathB \in DOMAIN fs
    /\ PathB \in DOMAIN lastTid /\ PathB \notin DOMAIN gens /\ PathB \notin DOMAIN timers
    /\ Get(burstEmits, PathB) = 1
    /\ out = <<>> /\ ncall = 0 /\ wpc = "select"

\* two strings are equal ignoring letter case
EqFold(a, b) == ToLower(a) = ToLower(b)

\* what an entry of a -ext value stands for: trimmed, lower-cased, without its dot
EntryExt(e) ==
    CASE e = <<"p", "d", "f">> -> <<"p", "d", "f">>
      [] e = <<"P", "D", "F">> -> <<"p", "d", "f">>
      [] e = <<".", "P", "d", "f">> -> <<"p", "d", "f">>
      [] e = <<" ", "p", "n", "g", " ">> -> <<"p", "n", "g">>
      [] OTHER -> <<>>

\* C14 (as stated): allowed(path, exts) is true for every path when exts is empty,
\* and for a non-empty exts exactly when the path's extension equals some member
\* of exts ignoring letter case.
C14_AllowedIgnoresCase ==
    probe.kind = "direct" =>
        probe.ok = (probe.exts = {} \/ \E e \in probe.exts : EqFold(e, probe.ext))

\* C14 (amended): allowed(path, exts) is true for every path when exts is empty;
\* for a non-empty exts it is true exactly when the path's extension, lower-cased,
\* is itself a member of exts; so for the set ParseExtensions makes of a -ext value
\* it is true exactly when the extension equals, ignoring letter case, some
\* non-blank entry of the value with its spaces and leading dot removed.
C14_AllowedLowersPathOnly ==
    /\ probe.kind = "direct" =>
          probe.ok = (probe.exts = {} \/ \E e \in probe.exts : e = ToLower(probe.ext))
    /\ probe.kind = "parsed" =>
          LET named == {EntryExt(probe.entries[i]) : i \in 1..Len(probe.entries)} \ {<<>>}
          IN  /\ probe.exts = named
              /\ probe.ok = (named = {} \/ \E e \in named : EqFold(e, probe.ext))

C14_Witness ==
    /\ probe.kind = "parsed"
    /\ probe.path = <<"/", "w", "/", "a", ".", "p", "d", "f">>
    /\ probe.entries = <<<<"P", "D", "F">>>>
    /\ probe.ok

\* C15: when a timer message with the matching generation is handled for an
\* allowed path that is not accessible, nothing is placed on the queue, no timer
\* is scheduled and no message re-queued, the path's entries have left gens and
\* timers and the loop is at its select; a path gets a gens entry only by a
\* Create/Write raw event for it, and the loop starts to send a path only when
\* handling a message for a path that has one.
C15_TimeoutDropsPath ==
    /\ [][(/\ timerCh # <<>>
           /\ timerCh' = Tail(timerCh)
           /\ Get(gens, Head(timerCh).path) = Head(timerCh).gen
           /\ Head(timerCh).path \notin Filtered
           /\ Head(timerCh).path \notin DOMAIN fs)
             => /\ out' = out /\ wpc' = "select" /\ wsend' = wsend
                /\ armed' = armed /\ firing' = firing
                /\ Head(timerCh).path \notin DOMAIN gens'
                /\ Head(timerCh).path \notin DOMAIN timers']_vars
    /\ [][\A p \in Paths :
            (p \notin DOMAIN gens /\ p \in DOMAIN gens')
                => /\ nev' = nev + 1
                   /\ lastIn' \cap {"Create", "Write"} # {}
                   /\ Get(lastTid', p) = nev']_vars
    /\ [][(wpc # "send" /\ wpc' = "send")
             => (wsend' \in DOMAIN gens /\ wsend' = Head(timerCh).path)]_vars

C15_Witness ==
    /\ PathA \notin Filtered /\ PathA \notin DOMAIN fs
    /\ PathA \in DOMAIN lastTid /\ PathA \notin DOMAIN gens /\ PathA \notin DOMAIN timers
    /\ Get(burstEmits, PathA) = 1
    /\ out = <<>> /\ ncall = 0 /\ wpc = "select" /\ armed = {} /\ firing = {} /\ timerCh = <<>>

\* C16: when Upload returns nil, the source path does not exist; with disposition
\* delete every other file is as it was when Upload was entered (the temporary
\* copy of this call, the matter of C7, aside); with disposition backup the file
\* at backupDir/<basename of the source> holds exactly the bytes the source held.
C16_SuccessDisposesSource ==
    (upc = "exit" /\ uerr = "nil") =>
        /\ ufile \notin DOMAIN fs
        /\ cfg.AfterUpload = "delete" =>
              \A p \in (DOMAIN fs \cup DOMAIN usnap) \ {ufile, upath} :
                  FileAt(fs, p) = FileAt(usnap, p)
        /\ cfg.AfterUpload = "backup" =>
              /\ ufile \in DOMAIN usnap
              /\ FileAt(fs, Join(cfg.BackupDir, Base(ufile))) = <<usnap[ufile]>>

C16_Witness ==
    /\ upc = "exit" /\ uerr = "nil" /\ cfg.AfterUpload = "backup"
    /\ ufile = PathA /\ PathA \notin DOMAIN fs
    /\ FileAt(usnap, BackupPath(PathA)) = <<OldContent>>
    /\ FileAt(fs, BackupPath(PathA)) = <<FileContent(PathA)>>

\* C17: when the disposition fails (after an accepted upload), Upload returns an
\* error, and the source file exists at its path with the content it had when
\* Upload was entered.
C17_DispositionFailureKeepsSource ==
    (upc \in {"ret", "exit"} /\ udisp = "failed") =>
        /\ Accepted
        /\ uerr \in {"delete after upload", "backup after upload"}
        /\ ufile \in DOMAIN fs
        /\ FileAt(fs, ufile) = FileAt(usnap, ufile)

C17_Witness ==
    /\ upc = "exit" /\ udisp = "failed" /\ cfg.AfterUpload = "backup"
    /\ uerr = "backup after upload"
    /\ ufile = PathA /\ FileAt(fs, PathA) = <<FileContent(PathA)>>
    /\ FileAt(fs, BackupPath(PathA)) = <<FileContent(PathA)>>

\* the titles the two watched files are to be uploaded with
ExpectedTitle(p) == IF p = PathA THEN <<"a">> ELSE <<"b">>

\* C18: with and without rename-to-UUID, every request Upload sends carries as
\* title the basename of the source path without its extension; without rename
\* the document part is named by the source's basename, with rename by the UUID
\* name followed by the source's extension, which is not the source's basename.
C18_TitleIsOriginalStem ==
    \A i \in 1..Len(ureq) :
        /\ ureq[i].title = ExpectedTitle(ufile)
        /\ ureq[i].title \o Ext(ufile) = Base(ufile)
        /\ ~cfg.RenameToUUID => ureq[i].filename = Base(ufile)
        /\ cfg.RenameToUUID =>
              /\ ureq[i].filename = Uuid(ncall) \o Ext(ufile)
              /\ ureq[i].filename # Base(ufile)

C18_Witness ==
    /\ upc = "exit" /\ cfg.RenameToUUID /\ ufile = PathB /\ ncall = 2
    /\ ureq = <<[filename |-> <<"u", "0", "2", ".", "P", "N", "G">>,
                 title |-> <<"b">>, body |-> <<3>>]>>

\* C19: a raw event whose operation is neither Create nor Write, and a timer
\* message whose generation is not the path's current one (a path without an
\* entry included), each leave timers, gens and the output queue as they were,
\* arm no timer and make the loop send nothing; timers and gens change only on a
\* Create/Write event and on a timer message with the matching generation.
C19_FrameOfIgnoredInputs ==
    /\ [][(nev' # nev /\ lastIn' \cap {"Create", "Write", "Error"} = {})
             => /\ timers' = timers /\ gens' = gens /\ out' = out
                /\ armed' = armed /\ wpc' = wpc /\ wsend' = wsend
                /\ burstEmits' = burstEmits]_vars
    /\ [][(/\ timerCh # <<>>
           /\ timerCh' = Tail(timerCh)
           /\ Get(gens, Head(timerCh).path) # Head(timerCh).gen)
             => /\ timers' = timers /\ gens' = gens /\ out' = out
                /\ armed' = armed /\ wpc' = wpc /\ wsend' = wsend
                /\ burstEmits' = burstEmits]_vars
    /\ [][(timers' # timers \/ gens' # gens)
             => \/ nev' # nev /\ lastIn' \cap {"Create", "Write"} # {}
                \/ /\ timerCh # <<>> /\ timerCh' = Tail(timerCh)
                   /\ Get(gens, Head(timerCh).path) = Head(timerCh).gen]_vars

C19_Witness ==
    /\ lastIn = {"Chmod"} /\ nev = 3
    /\ Get(gens, PathA) = 2 /\ Get(lastTid, PathA) = 2
    /\ armed = {[tid |-> 2, path |-> PathA, gen |-> 2]}
    /\ firing = {} /\ timerCh = <<>> /\ out = <<>> /\ wpc = "select"

\* C20: a fired timer callback leaves its select either by appending exactly its
\* own message to the timer-message queue or, stop being given, without
\* delivering; it changes neither timers nor gens; and once the stop signal is
\* given no callback delivers a message any more.
C20_CallbackDeliversOnceOrDrops ==
    /\ [][\A t \in firing :
            t \notin firing'
                => /\ \/ timerCh' = Append(timerCh, t)
                      \/ stop /\ timerCh' = timerCh
                   /\ timers' = timers /\ gens' = gens]_vars
    /\ [](Len(timerCh) <= TimerChCap)
    /\ [][stop => Len(timerCh') <= Len(timerCh)]_vars

\* C21: closing the output queue leaves its content as it is and nothing is
\* appended afterwards; before and after the close, and with stop given, a path
\* leaves the queue only by being received by the main loop and passed to Upload;
\* once the queue is closed, every path on it is eventually received, and the main
\* loop ends only when the queue is closed and empty.
C21_CloseDiscardsNothing ==
    /\ [][outClosed' # outClosed => (outClosed' /\ out' = out)]_vars
    /\ [][outClosed => (out' = out \/ out' = Tail(out))]_vars
    /\ [][out' # out =>
             \/ ~outClosed /\ wpc = "send" /\ out' = Append(out, wsend)
             \/ /\ out # <<>> /\ out' = Tail(out) /\ mpc = "recv" /\ mpc' = "upload"
                /\ ufile' = Head(out) /\ ncall' = ncall + 1 /\ ncall' \in active']_vars
    /\ outClosed ~> (out = <<>> /\ mpc = "stopped")
    /\ [](mpc = "stopped" => (outClosed /\ out = <<>> /\ upc = "idle"))
    /\ [][mpc # "stopped" /\ mpc' = "stopped" => (outClosed /\ out = <<>>)]_vars

C21_Witness ==
    /\ outClosed /\ stop /\ wpc = "done"
    /\ mpc = "upload" /\ upc = "post" /\ ufile = PathA
    /\ ncall = OutCap /\ out = <<>>

====
